---- MODULE Spec2Model ----
(***************************************************************************)
(* CCTVManager (src/models/cctv_manager.py) as a state machine.            *)
(*                                                                         *)
(* Threads: request threads (Callers) invoking the manager's public        *)
(* methods, and the worker threads the manager spawns (_monitor_stream).   *)
(* CPython may switch threads between any two bytecodes; the model takes   *)
(* one step per statement that reads or writes state shared by threads.    *)
(* Dict and Queue objects have identity: a racing add_stream replaces the  *)
(* objects stored under a name while other threads still hold the old      *)
(* ones. Identity is the field gen (the number of the add_stream call that *)
(* created the object).                                                    *)
(***************************************************************************)
EXTENDS Integers, Sequences, FiniteSets, TLC

\* ---------------------------------------------------------------- bounds
MaxFrame == 3       \* frames captured in one run (frame ids 1..MaxFrame)
MaxWorkers == 2     \* Thread objects created in one run
ErrThreshold == 1   \* consecutive failed reads a Streaming stream tolerates
MaxAttempts == 2    \* consecutive failed attempts before a stream is Stopped
MaxCalls == 3       \* calls made by the request threads in one run

Names == {"a", "b"}  \* every stream name a request may use
Urls == {"0", "demo", "rtsp"}
Locations == {"Lobby"}
Callers == 1..2
Workers == 1..MaxWorkers

NoFrame == 0        \* Python None in a frame position

VARIABLES
    active_streams, \* self.active_streams: name -> stream_info dict
    frame_queues,   \* self.frame_queues: name -> Queue(maxsize=1)
    stream_threads, \* self.stream_threads: name -> Thread
    running,        \* self.running
    db,             \* contents of config.CCTV_DB_FILE: name -> {url, location}
    call,           \* request threads: the call each is in, its locals
    wk,             \* worker threads: position in _monitor_stream, locals
    nextFrame,      \* next frame id (frames are numbered in capture order)
    nextGen,        \* next object identity
    calls,          \* number of calls the request threads have made
    names,          \* the stream names the requests of this run use
    urls,           \* the source URIs the requests of this run use
    lastPut,        \* history: name -> newest frame of a completed put
    stopSeen,       \* history: workers alive when stop_all_streams signalled
    streams_data,   \* load_streams_from_db: what it read from the file
    loading,        \* load_streams_from_db: items of streams_data still to add
    embedding1,     \* compare_embeddings: its first argument
    embedding2,     \* compare_embeddings: its second argument
    result,         \* compare_embeddings: what it returned
    embedding_data, \* validate_face_quality: its argument
    quality,        \* validate_face_quality: what it returned or raised
    image,          \* extract_embeddings: what cv2.imread gives for image_path
    extracted,      \* extract_embeddings: it has returned (into embedding_data)
    persons,        \* contents of config.PERSONS_DB_FILE, in the file's order
    faces,          \* what insight_app.get finds in a frame of the camera
    store,          \* config.DETECTIONS_DB_FILE: "ok", or "fails" (unwritable)
    detections_file,\* config.DETECTIONS_DB_FILE: the list of records it holds
    saving,         \* save_detection_to_db: the call each thread is in
    saves,          \* number of save_detection_to_db calls made
    saved,          \* history: the records written, in the order of writing
    overlap         \* history: two calls of save_detection_to_db overlapped

vars == <<active_streams, frame_queues, stream_threads, running, db, call, wk,
          nextFrame, nextGen, calls, names, urls, streams_data, lastPut,
          stopSeen, loading,
          embedding1, embedding2, result, embedding_data, quality, image,
          extracted, persons, faces, store, detections_file, saving, saves,
          saved, overlap>>

\* ------------------------------------------------------- dict operations
DictSet(d, k, v) == [x \in (DOMAIN d) \cup {k} |-> IF x = k THEN v ELSE d[x]]

DictDel(d, k) == [x \in (DOMAIN d) \ {k} |-> d[x]]

EmptyDict == [x \in {} |-> 0]

\* ---------------------------------------------------------- thread state
IdleCall == [pc |-> "idle", op |-> "none", name |-> "a", url |-> "demo",
             location |-> "Lobby", start_monitoring |-> TRUE, gen |-> 0,
             frame |-> NoFrame, floor |-> NoFrame, ret |-> "none",
             probe |-> "none", spawned |-> 0, thread |-> 0, iter |-> {},
             size |-> 0, acc |-> [x \in {} |-> 0], detected |-> FALSE,
             compared |-> {}]

NewWorker == [pc |-> "unstarted", name |-> "a", gen |-> 0, url |-> "demo",
              cap |-> "none", frame |-> NoFrame, qgen |-> 0, fails |-> 0]

\* An embedding argument: None, or the dict extract_embeddings builds
\* (face_matcher.py lines 57-62), whose key 'insightface' holds the vector.
\* has: the dict has the key; kind and vec: what the key holds.
NoEmbedding == [tag |-> "None", has |-> FALSE, kind |-> "vector", vec |-> <<>>]

\* compare_embeddings has not been called
NoResult == [similarity |-> 0, nan |-> FALSE, confidence |-> "none"]

\* validate_face_quality has not been called
NoQuality == [ok |-> FALSE, reason |-> "none", raised |-> "none"]

\* Thread.is_alive(): started and run() not yet returned
IsAlive(w) == wk[w].pc \notin {"unstarted", "dead"}

LiveWorkers(n) == {w \in Workers : IsAlive(w) /\ wk[w].name = n}

\* A thread that is in no call of save_detection_to_db.
IdleSave == [pc |-> "idle", detections |-> <<>>, id |-> 0, ret |-> "none"]

\* There is no detections file and save_detection_to_db is not called.
NoSaves ==
    /\ detections_file = <<>>
    /\ saving = [c \in Callers |-> IdleSave]
    /\ saves = 0
    /\ saved = <<>>
    /\ overlap = FALSE

\* The manager after __init__ with no stream file (lines 19-28, 37-39), and
\* the requests to come: names N, URIs U.
InitWith(N, U) ==
    /\ names = N
    /\ urls = U
    /\ active_streams = EmptyDict
    /\ frame_queues = EmptyDict
    /\ stream_threads = EmptyDict
    /\ running = FALSE
    /\ db = EmptyDict
    /\ call = [c \in Callers |-> IdleCall]
    /\ wk = [w \in Workers |-> NewWorker]
    /\ nextFrame = 1
    /\ nextGen = 1
    /\ calls = 0
    /\ lastPut = [n \in Names |-> NoFrame]
    /\ stopSeen = {}
    /\ loading = EmptyDict
    /\ streams_data = EmptyDict
    /\ embedding1 = NoEmbedding
    /\ embedding2 = NoEmbedding
    /\ result = NoResult
    /\ embedding_data = NoEmbedding
    /\ quality = NoQuality
    /\ image = "None"
    /\ extracted = FALSE
    /\ persons = <<>>
    /\ faces = <<>>
    /\ store = "ok"
    /\ NoSaves

\* The stream files the manager can find when it is constructed: none or an
\* empty one (no items), or one that lists some streams.
Files ==
    UNION {[S -> [url : Urls, location : Locations]] : S \in SUBSET Names}

\* The manager at line 41 of load_streams_from_db (lines 21-24 done), on a
\* stream file with the items of streams_data still to add. The requests
\* that follow the construction add demo streams.
InitLoad ==
    /\ names = Names
    /\ urls = {"demo"}
    /\ active_streams = EmptyDict
    /\ frame_queues = EmptyDict
    /\ stream_threads = EmptyDict
    /\ running = FALSE
    /\ db \in Files
    /\ loading = db
    /\ streams_data = db
    /\ call = [c \in Callers |-> IdleCall]
    /\ wk = [w \in Workers |-> NewWorker]
    /\ nextFrame = 1
    /\ nextGen = 1
    /\ calls = 0
    /\ lastPut = [n \in Names |-> NoFrame]
    /\ stopSeen = {}
    /\ embedding1 = NoEmbedding
    /\ embedding2 = NoEmbedding
    /\ result = NoResult
    /\ embedding_data = NoEmbedding
    /\ quality = NoQuality
    /\ image = "None"
    /\ extracted = FALSE
    /\ persons = <<>>
    /\ faces = <<>>
    /\ store = "ok"
    /\ NoSaves

\* The other variables, for the UNCHANGED clauses.
registry == <<active_streams, frame_queues, stream_threads, running, db>>

\* A call of AdvancedFaceMatcher.compare_embeddings, one of
\* AdvancedFaceMatcher.validate_face_quality and one of
\* AdvancedFaceMatcher.extract_embeddings.
matcher == <<embedding1, embedding2, result, embedding_data, quality, image,
            extracted>>

\* What process_frame_for_detection is given from outside the manager.
world == <<persons, faces, store, detections_file, saving, saves, saved,
           overlap>>

history == <<lastPut, stopSeen, names, urls, streams_data, loading, matcher, world>>

\* The locals of a request thread entering a call. Entering touches no shared
\* state, so it is taken together with the call's first statement. floor is
\* the newest completed put when the call starts (history).
Entered(op, n, u, l, sm) ==
    [IdleCall EXCEPT !.op = op, !.name = n, !.url = u, !.location = l,
                     !.start_monitoring = sm, !.floor = lastPut[n]]

\* A call returns r: the thread is idle again and its locals are gone; what
\* the call was (op, name, the outcome of its probe of the source) and what it returned
\* (ret, and frame when a frame is returned) stay visible.
Returned(rec, r) ==
    [IdleCall EXCEPT !.op = rec.op, !.name = rec.name, !.ret = r,
                     !.probe = rec.probe,
                     !.frame = IF r = "frame" THEN rec.frame ELSE NoFrame]

\* A request thread that is idle makes its next call. The application
\* serves requests once the manager is constructed (app.py line 37, 172).
\* Request threads are interchangeable: of the idle ones the lowest goes.
Enter(c) ==
    /\ loading = EmptyDict
    /\ calls = 0 => \A d \in Callers : call[d].pc = "idle"
    /\ call[c].pc = "idle"
    /\ \A d \in Callers : d < c => call[d].pc # "idle"
    /\ calls < MaxCalls
    /\ calls' = calls + 1

At(rec, pc) == [rec EXCEPT !.pc = pc]

\* ------------------------------------------------------------ add_stream
\* the stream_info dict of lines 95-103
NewInfo(u, l, g) ==
    [url |-> u, location |-> l, active |-> TRUE, last_frame |-> NoFrame,
     last_update |-> NoFrame, error_count |-> 0, gen |-> g]

\* Queue(maxsize=1), line 106
NewQueue(g) == [gen |-> g, q |-> <<>>]

QueueSize == 1

\* An add_stream that answers False for a registered name and yet puts a new
\* stream_info dict in its place.
AddStreamDuplicateOverwrites(c) ==
    /\ Enter(c)
    /\ \E n \in names \cap DOMAIN active_streams, u \in urls, l \in Locations :
          /\ call' = [call EXCEPT ![c] =
                      Returned(Entered("add_stream", n, u, l, TRUE), "False")]
          /\ active_streams' = DictSet(active_streams, n, NewInfo(u, l, 0))
    /\ UNCHANGED <<frame_queues, stream_threads, running, db, wk, nextFrame,
                   nextGen, history>>

\* lines 86-88: the name is registered: return False
AddStreamDuplicate(c) ==
    /\ Enter(c)
    /\ \E n \in names \cap DOMAIN active_streams, u \in urls, l \in Locations :
          call' = [call EXCEPT ![c] =
                      Returned(Entered("add_stream", n, u, l, TRUE), "False")]
    /\ UNCHANGED <<registry, wk, nextFrame, nextGen, history>>

\* line 86 false; line 91: "0" and "demo" skip the probe
AddStreamFresh(c) ==
    /\ Enter(c)
    /\ \E n \in names \ DOMAIN active_streams, u \in urls, l \in Locations :
          call' = [call EXCEPT ![c] =
                      At(Entered("add_stream", n, u, l, TRUE),
                         IF u \in {"0", "demo"} THEN "as_reg" ELSE "as_probe")]
    /\ UNCHANGED <<registry, wk, nextFrame, nextGen, history>>

\* lines 91-93 and 152-176: test_rtsp_connection succeeds
AddStreamProbeOk(c) ==
    /\ call[c].pc = "as_probe"
    /\ call' = [call EXCEPT ![c].probe = "ok", ![c].pc = "as_reg"]
    /\ UNCHANGED <<calls, registry, wk, nextFrame, nextGen, history>>

\* An add_stream that goes on to register the stream after a failed probe.
AddStreamProbeFailIgnored(c) ==
    /\ call[c].pc = "as_probe"
    /\ call' = [call EXCEPT ![c].probe = "failed", ![c].pc = "as_reg"]
    /\ UNCHANGED <<calls, registry, wk, nextFrame, nextGen, history>>

\* lines 91-93 and 152-176: test_rtsp_connection fails: return False
AddStreamProbeFail(c) ==
    /\ call[c].pc = "as_probe"
    /\ call' = [call EXCEPT ![c] =
                   Returned([call[c] EXCEPT !.probe = "failed"], "False")]
    /\ UNCHANGED <<calls, registry, wk, nextFrame, nextGen, history>>

\* lines 95-103
AddStreamRegister(c) ==
    /\ call[c].pc = "as_reg"
    /\ active_streams' = DictSet(active_streams, call[c].name,
                            NewInfo(call[c].url, call[c].location, nextGen))
    /\ nextGen' = nextGen + 1
    /\ call' = [call EXCEPT ![c].pc = "as_queue", ![c].gen = nextGen]
    /\ UNCHANGED <<calls, frame_queues, stream_threads, running, db, wk, nextFrame,
                   history>>

\* lines 105-109
AddStreamQueue(c) ==
    /\ call[c].pc = "as_queue"
    /\ frame_queues' = DictSet(frame_queues, call[c].name, NewQueue(call[c].gen))
    /\ call' = [call EXCEPT ![c].pc =
                   IF call[c].start_monitoring THEN "ssm_check" ELSE "as_save"]
    /\ UNCHANGED <<calls, active_streams, stream_threads, running, db, wk, nextFrame,
                   nextGen, history>>

\* ----------------------------------------------------- add_webcam_stream
\* An add_webcam_stream that deletes the queue of the name and leaves the
\* registered entry.
AddWebcamRemovesQueue(c) ==
    /\ Enter(c)
    /\ \E n \in names, l \in Locations :
          /\ call' = [call EXCEPT ![c] =
                At(Entered("add_webcam_stream", n, "0", l, TRUE), "aw_test")]
          /\ frame_queues' = DictDel(frame_queues, n)
    /\ UNCHANGED <<active_streams, stream_threads, running, db, wk, nextFrame,
                   nextGen, history>>

\* lines 121-130: an entry registered under the name is deleted
AddWebcamRemove(c) ==
    /\ Enter(c)
    /\ \E n \in names, l \in Locations :
          /\ call' = [call EXCEPT ![c] =
                At(Entered("add_webcam_stream", n, "0", l, TRUE), "aw_test")]
          /\ active_streams' = DictDel(active_streams, n)
    /\ UNCHANGED <<frame_queues, stream_threads, running, db, wk, nextFrame,
                   nextGen, history>>

\* lines 133-149: the webcam cannot be opened or read: return False
AddWebcamTestFail(c) ==
    /\ call[c].pc = "aw_test"
    /\ call' = [call EXCEPT ![c] =
                   Returned([call[c] EXCEPT !.probe = "failed"], "False")]
    /\ UNCHANGED <<calls, registry, wk, nextFrame, nextGen, history>>

\* lines 133-140: the webcam gives a frame: add_stream(stream_name, "0",
\* location) is called, lines 86-91 of which are taken with the call
AddWebcamTestOk(c) ==
    /\ call[c].pc = "aw_test"
    /\ call' = [call EXCEPT ![c] =
          IF call[c].name \in DOMAIN active_streams
          THEN Returned([call[c] EXCEPT !.probe = "ok"], "False")
          ELSE [call[c] EXCEPT !.probe = "ok", !.pc = "as_reg"]]
    /\ UNCHANGED <<calls, registry, wk, nextFrame, nextGen, history>>

\* -------------------------------------------------- load_streams_from_db
\* A load that adds each stream with monitoring on.
LoadItemMonitoring(c) ==
    /\ \A d \in Callers : c <= d
    /\ call[c].pc = "idle"
    /\ \E k \in DOMAIN loading :
          /\ call' = [call EXCEPT ![c] =
                IF k \in DOMAIN active_streams
                THEN Returned(Entered("add_stream", k, loading[k].url,
                                      loading[k].location, TRUE), "False")
                ELSE At(Entered("add_stream", k, loading[k].url,
                                loading[k].location, TRUE),
                        IF loading[k].url \in {"0", "demo"}
                        THEN "as_reg" ELSE "as_probe")]
          /\ loading' = DictDel(loading, k)
    /\ UNCHANGED <<calls, registry, wk, nextFrame, nextGen, lastPut, stopSeen,
                   names, urls, streams_data, matcher, world>>

\* lines 49-55: the constructor's thread takes the next item of streams_data
\* and calls add_stream(..., start_monitoring=False), lines 86-91 of which
\* are taken with the call
LoadItem(c) ==
    /\ \A d \in Callers : c <= d
    /\ call[c].pc = "idle"
    /\ \E k \in DOMAIN loading :
          /\ call' = [call EXCEPT ![c] =
                IF k \in DOMAIN active_streams
                THEN Returned(Entered("add_stream", k, loading[k].url,
                                      loading[k].location, FALSE), "False")
                ELSE At(Entered("add_stream", k, loading[k].url,
                                loading[k].location, FALSE),
                        IF loading[k].url \in {"0", "demo"}
                        THEN "as_reg" ELSE "as_probe")]
          /\ loading' = DictDel(loading, k)
    /\ UNCHANGED <<calls, registry, wk, nextFrame, nextGen, lastPut, stopSeen,
                   names, urls, streams_data, matcher, world>>

\* ----------------------------------------------- start_stream_monitoring
\* start_stream_monitoring returns r: to the request, or into add_stream
\* (line 109, which ignores the value and goes on to line 112), called by a
\* request or by add_webcam_stream (line 140)
SsmReturn(rec, r) ==
    IF rec.op \in {"add_stream", "add_webcam_stream"}
    THEN At(rec, "as_save")
    ELSE Returned(rec, r)

\* line 184: a Thread is stored for the name and it is alive
Monitored(n) ==
    /\ n \in DOMAIN stream_threads
    /\ IsAlive(stream_threads[n])

\* lines 180-189 for the thread with locals rec: the value of call[c]
\* afterwards. Line 189 writes self.running (TRUE when the checks of lines
\* 180 and 184 are passed); the checks read no state that line 189 writes.
SsmDecide(rec) ==
    IF rec.name \notin DOMAIN active_streams
    THEN SsmReturn(rec, "False")
    ELSE IF Monitored(rec.name)
         THEN SsmReturn(rec, "True")
         ELSE At(rec, "ssm_spawn")

SsmRunning(rec) ==
    IF rec.name \in DOMAIN active_streams /\ ~Monitored(rec.name)
    THEN TRUE
    ELSE running

\* start_stream_monitoring(name) called by a request, lines 180-189
StartMonitoring(c) ==
    /\ Enter(c)
    /\ \E n \in names :
          LET rec == Entered("start_stream_monitoring", n, "demo", "Lobby", TRUE)
          IN  /\ call' = [call EXCEPT ![c] = SsmDecide(rec)]
              /\ running' = SsmRunning(rec)
    /\ UNCHANGED <<active_streams, frame_queues, stream_threads, db, wk,
                   nextFrame, nextGen, history>>

\* start_stream_monitoring(name) called by add_stream (line 109), lines 180-189
SsmCheck(c) ==
    /\ call[c].pc = "ssm_check"
    /\ call' = [call EXCEPT ![c] = SsmDecide(call[c])]
    /\ running' = SsmRunning(call[c])
    /\ UNCHANGED <<calls, active_streams, frame_queues, stream_threads, db, wk,
                   nextFrame, nextGen, history>>

\* lines 190-195: Thread(target=_monitor_stream, args=(name,)).start()
SsmSpawn(c) ==
    /\ call[c].pc = "ssm_spawn"
    /\ \E w \in Workers :
          /\ wk[w].pc = "unstarted"
          /\ \A v \in Workers : wk[v].pc = "unstarted" => w <= v
          /\ wk' = [wk EXCEPT ![w].pc = "w_bind", ![w].name = call[c].name]
          /\ call' = [call EXCEPT ![c].pc = "ssm_store", ![c].thread = w,
                          ![c].spawned = call[c].spawned + 1]
    /\ UNCHANGED <<calls, registry, nextFrame, nextGen, history>>

\* lines 196-199
SsmStore(c) ==
    /\ call[c].pc = "ssm_store"
    /\ stream_threads' = DictSet(stream_threads, call[c].name, call[c].thread)
    /\ call' = [call EXCEPT ![c] = SsmReturn(call[c], "True")]
    /\ UNCHANGED <<calls, active_streams, frame_queues, running, db, wk, nextFrame,
                   nextGen, history>>

\* ---------------------------------------------------- save_streams_to_db
\* A for loop over dict.items(): the iterator notes the dict's size when it is
\* made and every next() raises RuntimeError when the size has changed.
IterStart(rec, pc) ==
    [rec EXCEPT !.pc = pc, !.iter = {}, !.acc = EmptyDict,
                !.size = Cardinality(DOMAIN active_streams)]

IterBroken(rec) == Cardinality(DOMAIN active_streams) # rec.size

IterLeft(rec) == (DOMAIN active_streams) \ rec.iter

IterKey(rec) == CHOOSE k \in IterLeft(rec) : TRUE

\* lines 67-68: the iterator is made
SaveStart(c) ==
    /\ call[c].pc = "as_save"
    /\ call' = [call EXCEPT ![c] = IterStart(call[c], "as_save_it")]
    /\ UNCHANGED <<calls, registry, wk, nextFrame, nextGen, history>>

\* lines 68-73: one item
SaveItem(c) ==
    /\ call[c].pc = "as_save_it"
    /\ ~IterBroken(call[c])
    /\ IterLeft(call[c]) # {}
    /\ LET k == IterKey(call[c]) IN
          call' = [call EXCEPT ![c].iter = call[c].iter \cup {k},
                       ![c].acc = DictSet(call[c].acc, k,
                                     [url |-> active_streams[k].url,
                                      location |-> active_streams[k].location])]
    /\ UNCHANGED <<calls, registry, wk, nextFrame, nextGen, history>>

\* line 68: the loop ends, streams_data is complete
SaveDone(c) ==
    /\ call[c].pc = "as_save_it"
    /\ ~IterBroken(call[c])
    /\ IterLeft(call[c]) = {}
    /\ call' = [call EXCEPT ![c].pc = "as_save_write"]
    /\ UNCHANGED <<calls, registry, wk, nextFrame, nextGen, history>>

\* lines 75-78, then 114-115: the file is written, add_stream returns True
SaveWrite(c) ==
    /\ call[c].pc = "as_save_write"
    /\ db' = call[c].acc
    /\ call' = [call EXCEPT ![c] = Returned(call[c], "True")]
    /\ UNCHANGED <<calls, active_streams, frame_queues, stream_threads, running, wk,
                   nextFrame, nextGen, history>>

\* lines 79-80, then 114-115: RuntimeError is logged, nothing is written
SaveError(c) ==
    /\ call[c].pc = "as_save_it"
    /\ IterBroken(call[c])
    /\ call' = [call EXCEPT ![c] = Returned(call[c], "True")]
    /\ UNCHANGED <<calls, registry, wk, nextFrame, nextGen, history>>

\* ------------------------------------------------------- _monitor_stream
\* the worker's stream_info is still the dict registered under its name
Bound(w) ==
    /\ wk[w].name \in DOMAIN active_streams
    /\ active_streams[wk[w].name].gen = wk[w].gen

\* stream_info['active'] (line 218); no statement ever stores False in it
InfoActive(w) == IF Bound(w) THEN active_streams[wk[w].name].active ELSE TRUE

\* line 203: stream_info = self.active_streams[stream_name];
\* lines 207-213: for the webcam, cv2.VideoCapture(0)
WBind(w) ==
    /\ wk[w].pc = "w_bind"
    /\ wk[w].name \in DOMAIN active_streams
    /\ LET info == active_streams[wk[w].name] IN
          wk' = [wk EXCEPT ![w].gen = info.gen, ![w].url = info.url,
                     ![w].cap = IF info.url = "0" THEN "open" ELSE "none",
                     ![w].pc = "w_loop"]
    /\ UNCHANGED <<calls, registry, call, nextFrame, nextGen, history>>

\* line 203 raises KeyError, or lines 214-216: VideoCapture raises and
\* _monitor_stream returns: the thread ends holding no handle
WBindError(w) ==
    /\ wk[w].pc = "w_bind"
    /\ \/ wk[w].name \notin DOMAIN active_streams
       \/ /\ wk[w].name \in DOMAIN active_streams
          /\ active_streams[wk[w].name].url = "0"
    /\ wk' = [wk EXCEPT ![w].pc = "dead"]
    /\ UNCHANGED <<calls, registry, call, nextFrame, nextGen, history>>

\* line 218: while self.running and stream_info['active']
LoopOn(w) == running /\ InfoActive(w)

\* line 218 true; lines 220-228 (cap.read() succeeds) or 229-239 (the
\* generated frame of every stream that is not the webcam)
WRead(w) ==
    /\ wk[w].pc = "w_loop"
    /\ LoopOn(w)
    /\ nextFrame <= MaxFrame
    /\ wk' = [wk EXCEPT ![w].frame = nextFrame, ![w].fails = 0,
                 ![w].pc = "w_info"]
    /\ nextFrame' = nextFrame + 1
    /\ UNCHANGED <<calls, registry, call, nextGen, history>>

\* line 218 true; lines 222-226: cap.read() fails: sleep(1), continue
WReadFail(w) ==
    /\ wk[w].pc = "w_loop"
    /\ LoopOn(w)
    /\ wk[w].url = "0"
    /\ wk[w].fails <= MaxAttempts
    /\ wk' = [wk EXCEPT ![w].fails = wk[w].fails + 1]
    /\ UNCHANGED <<calls, registry, call, nextFrame, nextGen, history>>

\* line 218 false, lines 260-263: the handle is released, the thread ends
WExit(w) ==
    /\ wk[w].pc = "w_loop"
    /\ ~LoopOn(w)
    /\ wk' = [wk EXCEPT ![w].pc = "dead",
                 ![w].cap = IF wk[w].cap = "open" THEN "released" ELSE wk[w].cap]
    /\ UNCHANGED <<calls, registry, call, nextFrame, nextGen, history>>

\* lines 242-243
WInfo(w) ==
    /\ wk[w].pc = "w_info"
    /\ active_streams' =
          IF Bound(w)
          THEN [active_streams EXCEPT ![wk[w].name].last_frame = wk[w].frame,
                                      ![wk[w].name].last_update = wk[w].frame]
          ELSE active_streams
    /\ wk' = [wk EXCEPT ![w].pc = "w_drain"]
    /\ UNCHANGED <<calls, frame_queues, stream_threads, running, db, call, nextFrame,
                   nextGen, history>>

\* A worker that empties the queue of every stream.
WDrainAll(w) ==
    /\ wk[w].pc = "w_drain"
    /\ wk[w].name \in DOMAIN frame_queues
    /\ frame_queues' = [n \in DOMAIN frame_queues |->
                           [frame_queues[n] EXCEPT !.q = <<>>]]
    /\ wk' = [wk EXCEPT ![w].pc = "w_put"]
    /\ UNCHANGED <<calls, active_streams, stream_threads, running, db, call, nextFrame,
                   nextGen, history>>

\* A worker that leaves the queued frame where it is.
WDrainKeeps(w) ==
    /\ wk[w].pc = "w_drain"
    /\ wk[w].name \in DOMAIN frame_queues
    /\ wk' = [wk EXCEPT ![w].pc = "w_put"]
    /\ UNCHANGED <<calls, registry, call, nextFrame, nextGen, history>>

\* lines 246-250: a frame in the queue is taken out and dropped
WDrain(w) ==
    /\ wk[w].pc = "w_drain"
    /\ wk[w].name \in DOMAIN frame_queues
    /\ frame_queues' = [frame_queues EXCEPT ![wk[w].name].q = <<>>]
    /\ wk' = [wk EXCEPT ![w].pc = "w_put"]
    /\ UNCHANGED <<calls, active_streams, stream_threads, running, db, call, nextFrame,
                   nextGen, history>>

\* lines 246 or 252 raise KeyError, lines 256-258: sleep(1), next iteration
WNoQueue(w) ==
    /\ wk[w].pc \in {"w_drain", "w_put"}
    /\ wk[w].name \notin DOMAIN frame_queues
    /\ wk' = [wk EXCEPT ![w].pc = "w_loop"]
    /\ UNCHANGED <<calls, registry, call, nextFrame, nextGen, history>>

\* A put into a queue that has no maximum size.
WPutUnbounded(w) ==
    /\ wk[w].pc = "w_put"
    /\ wk[w].name \in DOMAIN frame_queues
    /\ frame_queues' = [frame_queues EXCEPT
                           ![wk[w].name].q = Append(@, wk[w].frame)]
    /\ lastPut' = [lastPut EXCEPT ![wk[w].name] = wk[w].frame]
    /\ wk' = [wk EXCEPT ![w].pc = "w_loop"]
    /\ UNCHANGED <<calls, active_streams, stream_threads, running, db, call, nextFrame,
                   nextGen, stopSeen, names, urls, streams_data, loading, matcher, world>>

\* line 252 with room in the queue, line 254
WPut(w) ==
    /\ wk[w].pc = "w_put"
    /\ wk[w].name \in DOMAIN frame_queues
    /\ Len(frame_queues[wk[w].name].q) < QueueSize
    /\ frame_queues' = [frame_queues EXCEPT
                           ![wk[w].name].q = Append(@, wk[w].frame)]
    /\ lastPut' = [lastPut EXCEPT ![wk[w].name] = wk[w].frame]
    /\ wk' = [wk EXCEPT ![w].pc = "w_loop"]
    /\ UNCHANGED <<calls, active_streams, stream_threads, running, db, call, nextFrame,
                   nextGen, stopSeen, names, urls, streams_data, loading, matcher, world>>

\* line 252 with the queue full: Queue.put blocks on that Queue object
WPutBlock(w) ==
    /\ wk[w].pc = "w_put"
    /\ wk[w].name \in DOMAIN frame_queues
    /\ Len(frame_queues[wk[w].name].q) >= QueueSize
    /\ wk' = [wk EXCEPT ![w].pc = "w_blocked",
                 ![w].qgen = frame_queues[wk[w].name].gen]
    /\ UNCHANGED <<calls, registry, call, nextFrame, nextGen, history>>

\* line 252: a get on the same Queue object wakes the blocked put
WPutWake(w) ==
    /\ wk[w].pc = "w_blocked"
    /\ wk[w].name \in DOMAIN frame_queues
    /\ frame_queues[wk[w].name].gen = wk[w].qgen
    /\ Len(frame_queues[wk[w].name].q) < QueueSize
    /\ frame_queues' = [frame_queues EXCEPT
                           ![wk[w].name].q = Append(@, wk[w].frame)]
    /\ lastPut' = [lastPut EXCEPT ![wk[w].name] = wk[w].frame]
    /\ wk' = [wk EXCEPT ![w].pc = "w_loop"]
    /\ UNCHANGED <<calls, active_streams, stream_threads, running, db, call, nextFrame,
                   nextGen, stopSeen, names, urls, streams_data, loading, matcher, world>>

\* ----------------------------------------------------- get_current_frame
\* lines 268-270: the name is not registered: return None
GetFrameUnknown(c) ==
    /\ Enter(c)
    /\ \E n \in names \ DOMAIN active_streams :
          call' = [call EXCEPT ![c] =
              Returned(Entered("get_current_frame", n, "demo", "Lobby", TRUE), "None")]
    /\ UNCHANGED <<registry, wk, nextFrame, nextGen, history>>

\* lines 268-274: the branch is chosen by looking at the queue
GetFrameCheck(c) ==
    /\ Enter(c)
    /\ \E n \in names \cap DOMAIN active_streams :
          call' = [call EXCEPT ![c] =
              At(Entered("get_current_frame", n, "demo", "Lobby", TRUE),
                 IF n \in DOMAIN frame_queues /\ frame_queues[n].q # <<>>
                 THEN "gcf_get" ELSE "gcf_fallback")]
    /\ UNCHANGED <<registry, wk, nextFrame, nextGen, history>>

\* line 276: get_nowait() returns the queued frame
GetFrameTake(c) ==
    /\ call[c].pc = "gcf_get"
    /\ frame_queues[call[c].name].q # <<>>
    /\ call' = [call EXCEPT ![c].pc = "gcf_store",
                    ![c].frame = Head(frame_queues[call[c].name].q)]
    /\ frame_queues' = [frame_queues EXCEPT ![call[c].name].q = <<>>]
    /\ UNCHANGED <<calls, active_streams, stream_threads, running, db, wk, nextFrame,
                   nextGen, history>>

\* lines 276-279: get_nowait() raises Empty, frame stays None;
\* lines 285-292: the placeholder is returned
GetFrameEmpty(c) ==
    /\ call[c].pc = "gcf_get"
    /\ frame_queues[call[c].name].q = <<>>
    /\ call' = [call EXCEPT ![c] = Returned(call[c], "placeholder")]
    /\ UNCHANGED <<calls, registry, wk, nextFrame, nextGen, history>>

\* line 277 (a KeyError is passed over by line 278), lines 295-300
GetFrameStore(c) ==
    /\ call[c].pc = "gcf_store"
    /\ active_streams' =
          IF call[c].name \in DOMAIN active_streams
          THEN [active_streams EXCEPT ![call[c].name].last_frame = call[c].frame]
          ELSE active_streams
    /\ call' = [call EXCEPT ![c] = Returned(call[c], "frame")]
    /\ UNCHANGED <<calls, frame_queues, stream_threads, running, db, wk, nextFrame,
                   nextGen, history>>

\* line 282; lines 285-292 (placeholder) or 295-300 (the frame);
\* a KeyError at line 282 goes to lines 302-304: return None
GetFrameFallback(c) ==
    /\ call[c].pc = "gcf_fallback"
    /\ call' = [call EXCEPT ![c] =
          IF call[c].name \notin DOMAIN active_streams
          THEN Returned(call[c], "None")
          ELSE LET f == active_streams[call[c].name].last_frame IN
               Returned([call[c] EXCEPT !.frame = f],
                        IF f = NoFrame THEN "placeholder" ELSE "frame")]
    /\ UNCHANGED <<calls, registry, wk, nextFrame, nextGen, history>>

\* ----------------------------------------------------- get_stream_status
\* lines 310-311: the iterator is made
StatusStart(c) ==
    /\ Enter(c)
    /\ call' = [call EXCEPT ![c] =
          IterStart(Entered("get_stream_status", "a", "demo", "Lobby", TRUE),
                    "gss_it")]
    /\ UNCHANGED <<registry, wk, nextFrame, nextGen, history>>

\* A get_stream_status that clears the last frame of each stream it lists.
StatusItemClears(c) ==
    /\ call[c].pc = "gss_it"
    /\ ~IterBroken(call[c])
    /\ IterLeft(call[c]) # {}
    /\ LET k == IterKey(call[c])
           i == active_streams[k]
       IN  /\ call' = [call EXCEPT ![c].iter = call[c].iter \cup {k},
                           ![c].acc = DictSet(call[c].acc, k,
                                         [location |-> i.location,
                                          active |-> i.active,
                                          last_update |-> i.last_update,
                                          error_count |-> i.error_count,
                                          url |-> i.url])]
           /\ active_streams' = [active_streams EXCEPT ![k].last_frame = NoFrame]
    /\ UNCHANGED <<calls, frame_queues, stream_threads, running, db, wk,
                   nextFrame, nextGen, history>>

\* lines 311-318: one item
StatusItem(c) ==
    /\ call[c].pc = "gss_it"
    /\ ~IterBroken(call[c])
    /\ IterLeft(call[c]) # {}
    /\ LET k == IterKey(call[c])
           i == active_streams[k]
       IN  call' = [call EXCEPT ![c].iter = call[c].iter \cup {k},
                        ![c].acc = DictSet(call[c].acc, k,
                                      [location |-> i.location,
                                       active |-> i.active,
                                       last_update |-> i.last_update,
                                       error_count |-> i.error_count,
                                       url |-> i.url])]
    /\ UNCHANGED <<calls, registry, wk, nextFrame, nextGen, history>>

\* line 319
StatusReturn(c) ==
    /\ call[c].pc = "gss_it"
    /\ ~IterBroken(call[c])
    /\ IterLeft(call[c]) = {}
    /\ call' = [call EXCEPT ![c] = Returned(call[c], "status")]
    /\ UNCHANGED <<calls, registry, wk, nextFrame, nextGen, history>>

\* line 311: RuntimeError (dictionary changed size during iteration) leaves
\* get_stream_status, which catches nothing
StatusError(c) ==
    /\ call[c].pc = "gss_it"
    /\ IterBroken(call[c])
    /\ call' = [call EXCEPT ![c] = Returned(call[c], "RuntimeError")]
    /\ UNCHANGED <<calls, registry, wk, nextFrame, nextGen, history>>

\* ------------------------------------------------------ stop_all_streams
\* line 323, and line 324 makes the iterator over stream_threads.values()
StopSignal(c) ==
    /\ Enter(c)
    /\ running' = FALSE
    /\ stopSeen' = stopSeen \cup {w \in Workers : IsAlive(w)}
    /\ call' = [call EXCEPT ![c] =
          [Entered("stop_all_streams", "a", "demo", "Lobby", TRUE)
              EXCEPT !.pc = "sas_join",
                     !.size = Cardinality(DOMAIN stream_threads)]]
    /\ UNCHANGED <<active_streams, frame_queues, stream_threads, db, wk,
                   nextFrame, nextGen, lastPut, names, urls, streams_data,
                   loading, matcher, world>>

\* lines 324-327: each join returns when its thread has ended or after 5 s;
\* a thread stored meanwhile makes the for loop raise RuntimeError
StopJoin(c) ==
    /\ call[c].pc = "sas_join"
    /\ call' = [call EXCEPT ![c] =
          Returned(call[c],
                   IF Cardinality(DOMAIN stream_threads) # call[c].size
                   THEN "RuntimeError" ELSE "None")]
    /\ UNCHANGED <<calls, registry, wk, nextFrame, nextGen, history>>

\* ------------------------------- compare_embeddings (face_matcher.py)
\* The reference vector of the comparisons.
Reference == <<20, 0, 0, 0, 0>>

\* Vectors an embedding can hold. Those of the reference's length have the
\* norm 20, so that their cosine with the reference is the first component
\* over 20: every threshold of lines 89-95 and values on both sides of it.
\* Then the zero vector, a shorter vector and the empty one.
Vectors ==
    { Reference,
      <<16, 12, 0, 0, 0>>, <<15, 13, 2, 1, 1>>, <<14, 14, 2, 2, 0>>,
      <<13, 14, 5, 3, 1>>, <<12, 16, 0, 0, 0>>, <<11, 15, 7, 2, 1>>,
      <<10, 17, 3, 1, 1>>, <<9, 17, 5, 2, 1>>, <<8, 16, 8, 4, 0>>,
      <<0, 20, 0, 0, 0>>, <<-20, 0, 0, 0, 0>>,
      <<0, 0, 0, 0, 0>>, <<3, 4>>, <<>> }

\* The arguments a caller can pass: None, a dict without the key
\* 'insightface', a dict whose key holds a string, a dict with a vector.
Embeddings ==
    {NoEmbedding}
    \cup {[tag |-> "dict", has |-> FALSE, kind |-> "vector", vec |-> <<>>]}
    \cup {[tag |-> "dict", has |-> TRUE, kind |-> "str", vec |-> <<>>]}
    \cup {[tag |-> "dict", has |-> TRUE, kind |-> "vector", vec |-> v] :
             v \in Vectors}

\* np.dot of two vectors of one length (line 85)
RECURSIVE Dot(_, _)
Dot(v1, v2) ==
    IF v1 = <<>> THEN 0
    ELSE Head(v1) * Head(v2) + Dot(Tail(v1), Tail(v2))

\* the whole part of a square root
ISqrt(x) == CHOOSE r \in 0..x : r * r <= x /\ (r + 1) * (r + 1) > x

\* np.linalg.norm (line 85); the norms of Vectors are whole numbers
Norm(v) == ISqrt(Dot(v, v))

\* A cosine that divides by the squared norms.
CosineSimSquared(v1, v2) ==
    (Dot(v1, v2) * 1000) \div (Dot(v1, v1) * Dot(v2, v2))

\* line 85: the cosine, as a float of three decimals, in thousandths
CosineSim(v1, v2) == (Dot(v1, v2) * 1000) \div (Norm(v1) * Norm(v2))

\* the thresholds of lines 89, 91, 93, 95, in thousandths
VeryHighAbove == 750

HighAbove == 650

MediumAbove == 550

LowAbove == 450

\* A banding whose top band starts at its threshold.
ConfidenceInclusive(cosine_sim) ==
    IF cosine_sim >= VeryHighAbove THEN "VERY_HIGH"
    ELSE IF cosine_sim > HighAbove THEN "HIGH"
    ELSE IF cosine_sim > MediumAbove THEN "MEDIUM"
    ELSE IF cosine_sim > LowAbove THEN "LOW"
    ELSE "VERY_LOW"

\* lines 88-97
Confidence(cosine_sim) ==
    IF cosine_sim > VeryHighAbove THEN "VERY_HIGH"
    ELSE IF cosine_sim > HighAbove THEN "HIGH"
    ELSE IF cosine_sim > MediumAbove THEN "MEDIUM"
    ELSE IF cosine_sim > LowAbove THEN "LOW"
    ELSE "VERY_LOW"

\* lines 75-105. A string under the key, or vectors of two lengths, make
\* np.dot raise: lines 103-105. Norms whose product is 0 make the division
\* of line 85 give nan (numpy warns, it does not raise); every comparison
\* of lines 89-95 with nan is false, line 97 is reached and nan returned.
compare_embeddings(e1, e2) ==
    IF e1.tag = "None" \/ e2.tag = "None"
    THEN [similarity |-> 0, nan |-> FALSE, confidence |-> "INVALID_EMBEDDINGS"]
    ELSE IF ~(e1.has /\ e2.has)
    THEN [similarity |-> 0, nan |-> FALSE,
          confidence |-> "NO_INSIGHTFACE_EMBEDDINGS"]
    ELSE IF e1.kind # "vector" \/ e2.kind # "vector"
            \/ Len(e1.vec) # Len(e2.vec)
    THEN [similarity |-> 0, nan |-> FALSE, confidence |-> "COMPARISON_ERROR"]
    ELSE IF Norm(e1.vec) * Norm(e2.vec) = 0
    THEN [similarity |-> 0, nan |-> TRUE, confidence |-> "VERY_LOW"]
    ELSE [similarity |-> CosineSim(e1.vec, e2.vec), nan |-> FALSE,
          confidence |-> Confidence(CosineSim(e1.vec, e2.vec))]

\* compare_embeddings is called on the two arguments
Compare ==
    /\ result = NoResult
    /\ result' = compare_embeddings(embedding1, embedding2)
    /\ UNCHANGED <<calls, registry, call, wk, nextFrame, nextGen, lastPut,
                   stopSeen, names, urls, streams_data, loading, embedding1, embedding2,
                   embedding_data, quality, image, extracted, world>>

\* a matcher about to compare two embeddings, beside an idle manager
InitCompare ==
    /\ names = {}
    /\ urls = {}
    /\ active_streams = EmptyDict
    /\ frame_queues = EmptyDict
    /\ stream_threads = EmptyDict
    /\ running = FALSE
    /\ db = EmptyDict
    /\ call = [c \in Callers |-> IdleCall]
    /\ wk = [w \in Workers |-> NewWorker]
    /\ nextFrame = 1
    /\ nextGen = 1
    /\ calls = 0
    /\ lastPut = [n \in Names |-> NoFrame]
    /\ stopSeen = {}
    /\ loading = EmptyDict
    /\ streams_data = EmptyDict
    /\ embedding1 \in Embeddings
    /\ embedding2 \in Embeddings
    /\ result = NoResult
    /\ embedding_data = NoEmbedding
    /\ quality = NoQuality
    /\ image = "None"
    /\ extracted = FALSE
    /\ persons = <<>>
    /\ faces = <<>>
    /\ store = "ok"
    /\ NoSaves

\* ---------------------------- validate_face_quality (face_matcher.py)
\* self.quality_threshold of line 15, detection scores being in thousandths
QualityThreshold == 700

\* Detection scores: the threshold, its neighbours and values on both sides.
Scores == {0, 100, 300, 500, 699, 700, 701, 800, 900, 1000}

\* The arguments a caller can pass: None, the dict extract_embeddings
\* builds (lines 57-62), and a dict without the key 'det_score'.
QualityData ==
    {NoEmbedding}
    \cup {[tag |-> "dict", has |-> TRUE, kind |-> "vector", vec |-> v,
           has_score |-> TRUE, det_score |-> d] : v \in Vectors, d \in Scores}
    \cup {[tag |-> "dict", has |-> TRUE, kind |-> "vector", vec |-> v,
           has_score |-> FALSE, det_score |-> 0] : v \in Vectors}

\* lines 107-115. embedding_data.get('det_score', 0) is 0 for a dict without
\* the key, line 112 is then true and the f-string of line 113 evaluates
\* embedding_data['det_score'], which raises KeyError; nothing catches it.
validate_face_quality(e) ==
    IF e.tag = "None"
    THEN [ok |-> FALSE, reason |-> "No embedding data", raised |-> "none"]
    ELSE IF (IF e.has_score THEN e.det_score ELSE 0) < QualityThreshold
    THEN IF e.has_score
         THEN [ok |-> FALSE, reason |-> "Low detection score",
               raised |-> "none"]
         ELSE [ok |-> FALSE, reason |-> "none", raised |-> "KeyError"]
    ELSE [ok |-> TRUE, reason |-> "Face quality acceptable", raised |-> "none"]

\* validate_face_quality is called on the argument
Validate ==
    /\ quality = NoQuality
    /\ quality' = validate_face_quality(embedding_data)
    /\ UNCHANGED <<calls, registry, call, wk, nextFrame, nextGen, lastPut,
                   stopSeen, names, urls, streams_data, loading, embedding1, embedding2,
                   result, embedding_data, image, extracted, world>>

\* a matcher about to validate a face, beside an idle manager
InitQuality ==
    /\ names = {}
    /\ urls = {}
    /\ active_streams = EmptyDict
    /\ frame_queues = EmptyDict
    /\ stream_threads = EmptyDict
    /\ running = FALSE
    /\ db = EmptyDict
    /\ call = [c \in Callers |-> IdleCall]
    /\ wk = [w \in Workers |-> NewWorker]
    /\ nextFrame = 1
    /\ nextGen = 1
    /\ calls = 0
    /\ lastPut = [n \in Names |-> NoFrame]
    /\ stopSeen = {}
    /\ loading = EmptyDict
    /\ streams_data = EmptyDict
    /\ embedding1 = NoEmbedding
    /\ embedding2 = NoEmbedding
    /\ result = NoResult
    /\ embedding_data \in QualityData
    /\ quality = NoQuality
    /\ image = "None"
    /\ extracted = FALSE
    /\ persons = <<>>
    /\ faces = <<>>
    /\ store = "ok"
    /\ NoSaves

\* ------------------------- process_frame_for_detection (cctv_routes.py)
\* config.FACE_RECOGNITION_THRESHOLD (config.py line 13), in thousandths
RecognitionThreshold == 600

\* A record of PERSONS_DB_FILE: the id and the embedding dict that
\* upload_person stored (person_routes.py line 86).
Person(id, v) ==
    [id |-> id,
     embedding |-> [tag |-> "dict", has |-> TRUE, kind |-> "vector", vec |-> v]]

\* A face insight_app.get returns (line 173): detection score, embedding.
Face(d, v) == [det_score |-> d, embedding |-> v]

\* The person files of the runs. Against the reference vector p3 has the
\* similarity 0.6, the threshold itself, p1 has 0.8 and p2 has 1.0.
PersonLists ==
    { <<Person("p3", <<12, 16, 0, 0, 0>>)>>,
      <<Person("p3", <<12, 16, 0, 0, 0>>), Person("p1", <<16, 12, 0, 0, 0>>),
        Person("p2", Reference)>> }

\* What the camera sees in the runs: nobody; one face, well or poorly
\* detected; two faces of which the better detected one is a stranger.
Scenes ==
    { <<>>,
      <<Face(900, Reference)>>,
      <<Face(500, Reference)>>,
      <<Face(950, <<-20, 0, 0, 0, 0>>), Face(900, Reference)>> }

\* lines 187-191: compare_embeddings(target_embedding,
\* {'insightface': face.embedding})
FaceSimilarity(f, p) ==
    compare_embeddings(p.embedding,
                       [tag |-> "dict", has |-> TRUE, kind |-> "vector",
                        vec |-> f.embedding])

\* line 193: similarity > config.FACE_RECOGNITION_THRESHOLD (false for nan)
Matched(f, p) ==
    /\ ~FaceSimilarity(f, p).nan
    /\ FaceSimilarity(f, p).similarity > RecognitionThreshold

\* lines 183-217: the first person of the file, in its order, that the face
\* matches; 0 when it matches none
FirstMatch(f) ==
    IF \E i \in 1..Len(persons) : Matched(f, persons[i])
    THEN CHOOSE i \in 1..Len(persons) :
            /\ Matched(f, persons[i])
            /\ \A j \in 1..(i - 1) : ~Matched(f, persons[j])
    ELSE 0

\* lines 195-202: the detection of face number k as person number i
Detection(k, i) ==
    [person_id |-> persons[i].id, face |-> k,
     confidence |-> FaceSimilarity(faces[k], persons[i]).similarity]

\* lines 176-217: the detections of the faces k..Len(faces), in their order
RECURSIVE DetectionsFrom(_)
DetectionsFrom(k) ==
    IF k > Len(faces) THEN <<>>
    ELSE IF FirstMatch(faces[k]) = 0 THEN DetectionsFrom(k + 1)
    ELSE <<Detection(k, FirstMatch(faces[k]))>> \o DetectionsFrom(k + 1)

\* A process_frame_for_detection whose fetch of line 164 yields an image for
\* every registered stream: lines 168-235 then run on what the camera sees.
ProcessFrameDetects(c) ==
    /\ Enter(c)
    /\ \E n \in names :
          LET rec == Entered("process_frame_for_detection", n, "demo",
                             "Lobby", TRUE)
          IN  IF n \in DOMAIN active_streams /\ n \in DOMAIN frame_queues
              THEN /\ call' = [call EXCEPT ![c] =
                         [Returned(rec, IF DetectionsFrom(1) = <<>>
                                        THEN "[]" ELSE "list")
                             EXCEPT !.acc = DetectionsFrom(1),
                                    !.detected = TRUE,
                                    !.compared = 1..Len(faces)]]
                   /\ frame_queues' =
                         IF faces # <<>>
                         THEN [frame_queues EXCEPT ![n].q = <<MaxFrame>>]
                         ELSE frame_queues
              ELSE /\ call' = [call EXCEPT ![c] = Returned(rec, "[]")]
                   /\ UNCHANGED frame_queues
    /\ UNCHANGED <<active_streams, stream_threads, running, db, wk, nextFrame,
                   nextGen, history>>

\* A process_frame_for_detection without the handler of lines 237-239.
ProcessFrameRaises(c) ==
    /\ Enter(c)
    /\ \E n \in names :
          call' = [call EXCEPT ![c] =
              Returned(Entered("process_frame_for_detection", n, "demo",
                               "Lobby", TRUE), "TypeError")]
    /\ UNCHANGED <<registry, wk, nextFrame, nextGen, history>>

\* line 164 calls get_current_frame(stream_name, as_base64=False);
\* get_current_frame(self, stream_name) takes no such keyword, the call
\* raises TypeError, lines 237-239 return the empty list. Lines 165-235,
\* the write-back of lines 224-233 among them, are never executed.
ProcessFrame(c) ==
    /\ Enter(c)
    /\ \E n \in names :
          call' = [call EXCEPT ![c] =
              Returned(Entered("process_frame_for_detection", n, "demo",
                               "Lobby", TRUE), "[]")]
    /\ UNCHANGED <<registry, wk, nextFrame, nextGen, history>>

\* ------------------------------- extract_embeddings (face_matcher.py)
MaxFaces == 3       \* faces insight_app.get finds in one uploaded image

\* The faces an uploaded image can show: a poorly detected one, two that are
\* detected equally well, and the best detected one.
Portraits ==
    { Face(500, Reference), Face(900, <<16, 12, 0, 0, 0>>),
      Face(900, <<0, 20, 0, 0, 0>>), Face(950, <<-20, 0, 0, 0, 0>>) }

\* What insight_app.get returns for an image (line 48): a list of faces
Photos == UNION {[1..n -> Portraits] : n \in 0..MaxFaces}

\* line 55: max(faces, key=lambda x: x.det_score) is the first face of the
\* list whose score no other face exceeds
BestOf(fs) ==
    CHOOSE k \in 1..Len(fs) :
        /\ \A j \in 1..Len(fs) : fs[j].det_score <= fs[k].det_score
        /\ \A j \in 1..(k - 1) : fs[j].det_score < fs[k].det_score

\* lines 57-62: the dict built from a face
EmbeddingOf(f) ==
    [tag |-> "dict", has |-> TRUE, kind |-> "vector", vec |-> f.embedding,
     has_score |-> TRUE, det_score |-> f.det_score]

\* An extract_embeddings that takes the first face of the list.
extract_embeddings_first(img, fs) ==
    IF img = "None" THEN NoEmbedding
    ELSE IF Len(fs) = 0 THEN NoEmbedding
    ELSE EmbeddingOf(fs[1])

\* lines 40-73. preprocess_image returns None for an image cv2.imread cannot
\* load (lines 29-38), extract_embeddings then returns None (lines 44-45),
\* as it does for an image without faces (lines 50-52).
extract_embeddings(img, fs) ==
    IF img = "None" THEN NoEmbedding
    ELSE IF Len(fs) = 0 THEN NoEmbedding
    ELSE EmbeddingOf(fs[BestOf(fs)])

\* extract_embeddings is called on the image
Extract ==
    /\ ~extracted
    /\ embedding_data' = extract_embeddings(image, faces)
    /\ extracted' = TRUE
    /\ UNCHANGED <<calls, registry, call, wk, nextFrame, nextGen, lastPut,
                   stopSeen, names, urls, streams_data, loading, embedding1, embedding2,
                   result, quality, image, world>>

\* a matcher about to extract the embedding of an uploaded image, which
\* cannot be loaded or shows some faces, beside an idle manager
InitExtract ==
    /\ names = {}
    /\ urls = {}
    /\ active_streams = EmptyDict
    /\ frame_queues = EmptyDict
    /\ stream_threads = EmptyDict
    /\ running = FALSE
    /\ db = EmptyDict
    /\ call = [c \in Callers |-> IdleCall]
    /\ wk = [w \in Workers |-> NewWorker]
    /\ nextFrame = 1
    /\ nextGen = 1
    /\ calls = 0
    /\ lastPut = [n \in Names |-> NoFrame]
    /\ stopSeen = {}
    /\ loading = EmptyDict
    /\ streams_data = EmptyDict
    /\ embedding1 = NoEmbedding
    /\ embedding2 = NoEmbedding
    /\ result = NoResult
    /\ embedding_data = NoEmbedding
    /\ quality = NoQuality
    /\ extracted = FALSE
    /\ \/ image = "None" /\ faces = <<>>
       \/ image = "loaded" /\ faces \in Photos
    /\ persons = <<>>
    /\ store = "ok"
    /\ NoSaves

\* ----------------------------------- save_detection_to_db (helpers.py)
MaxSaves == 4       \* calls of save_detection_to_db in one run

\* line 64: the number of records the file keeps
KeepLast == 1000

\* The records a file holds from earlier runs, oldest first. Records are
\* numbered in the order of their saving, those of this run from 1 on.
Earlier(n) == [i \in 1..n |-> i - n]

\* A truncation that keeps the oldest records.
TruncateOldest(ds) ==
    IF Len(ds) > KeepLast THEN SubSeq(ds, 1, KeepLast) ELSE ds

\* lines 64-65: detections[-1000:]
Truncate(ds) ==
    IF Len(ds) > KeepLast
    THEN SubSeq(ds, Len(ds) - KeepLast + 1, Len(ds))
    ELSE ds

\* lines 52-65: the file is read ([] when there is none), the record is
\* appended to the list read and the list is cut to its last records. The
\* lowest thread that is in no call makes the next one.
SaveRead(c) ==
    /\ saves < MaxSaves
    /\ saving[c].pc = "idle"
    /\ \A d \in Callers : d < c => saving[d].pc # "idle"
    /\ saving' = [saving EXCEPT ![c] =
                     [pc |-> "write", id |-> saves + 1, ret |-> "none",
                      detections |->
                          Truncate(Append(detections_file, saves + 1))]]
    /\ saves' = saves + 1
    /\ overlap' = (overlap \/ \E d \in Callers \ {c} : saving[d].pc # "idle")
    /\ UNCHANGED <<calls, registry, call, wk, nextFrame, nextGen, lastPut,
                   stopSeen, names, urls, streams_data, loading, matcher, persons, faces,
                   store, detections_file, saved>>

\* lines 67-71: the list is written over the file, the call returns True
SaveStore(c) ==
    /\ saving[c].pc = "write"
    /\ store = "ok"
    /\ detections_file' = saving[c].detections
    /\ saved' = Append(saved, saving[c].id)
    /\ saving' = [saving EXCEPT ![c] = [IdleSave EXCEPT !.ret = "True"]]
    /\ UNCHANGED <<calls, registry, call, wk, nextFrame, nextGen, lastPut,
                   stopSeen, names, urls, streams_data, loading, matcher, persons, faces,
                   store, saves, overlap>>

\* line 67 raises (the file cannot be written), lines 73-75: return False
SaveFails(c) ==
    /\ saving[c].pc = "write"
    /\ store = "fails"
    /\ saving' = [saving EXCEPT ![c] = [IdleSave EXCEPT !.ret = "False"]]
    /\ UNCHANGED <<calls, registry, call, wk, nextFrame, nextGen, lastPut,
                   stopSeen, names, urls, streams_data, loading, matcher, persons, faces,
                   store, detections_file, saves, saved, overlap>>

\* The application beside a detections file that is absent or holds the
\* records of earlier runs, close to the number kept, and that can or
\* cannot be written.
InitStore ==
    /\ names = {}
    /\ urls = {}
    /\ active_streams = EmptyDict
    /\ frame_queues = EmptyDict
    /\ stream_threads = EmptyDict
    /\ running = FALSE
    /\ db = EmptyDict
    /\ call = [c \in Callers |-> IdleCall]
    /\ wk = [w \in Workers |-> NewWorker]
    /\ nextFrame = 1
    /\ nextGen = 1
    /\ calls = 0
    /\ lastPut = [n \in Names |-> NoFrame]
    /\ stopSeen = {}
    /\ loading = EmptyDict
    /\ streams_data = EmptyDict
    /\ embedding1 = NoEmbedding
    /\ embedding2 = NoEmbedding
    /\ result = NoResult
    /\ embedding_data = NoEmbedding
    /\ quality = NoQuality
    /\ image = "None"
    /\ extracted = FALSE
    /\ persons = <<>>
    /\ faces = <<>>
    /\ store \in {"ok", "fails"}
    /\ \E n \in {0, KeepLast - 2, KeepLast - 1, KeepLast} :
          /\ detections_file = Earlier(n)
          /\ saved = Earlier(n)
    /\ saving = [c \in Callers |-> IdleSave]
    /\ saves = 0
    /\ overlap = FALSE

\* ------------------------------------ get_stream_frame (cctv_routes.py)
\* line 102 calls get_current_frame(stream_name, as_base64=True), which
\* raises TypeError as at line 164; lines 126-132 answer with status 500
\* and has_frame False.
GetStreamFrame(c) ==
    /\ Enter(c)
    /\ \E n \in names :
          call' = [call EXCEPT ![c] =
              Returned(Entered("get_stream_frame", n, "demo", "Lobby", TRUE),
                       "500")]
    /\ UNCHANGED <<registry, wk, nextFrame, nextGen, history>>

\* ------------------------------------------------------------------ Next
\* add_stream of a local source ("0", "demo"), with the
\* start_stream_monitoring and the save_streams_to_db in it
AddStream(c) ==
    \/ AddStreamDuplicate(c)
    \/ AddStreamFresh(c)
    \/ AddStreamRegister(c)
    \/ AddStreamQueue(c)
    \/ SsmCheck(c)
    \/ SsmSpawn(c)
    \/ SsmStore(c)
    \/ SaveStart(c)
    \/ SaveItem(c)
    \/ SaveDone(c)
    \/ SaveWrite(c)

AddWebcam(c) ==
    \/ AddWebcamRemove(c)
    \/ AddWebcamTestFail(c)
    \/ AddWebcamTestOk(c)

\* the connectivity probe of the other sources
Probe(c) ==
    \/ AddStreamProbeOk(c)
    \/ AddStreamProbeFail(c)

GetFrame(c) ==
    \/ GetFrameUnknown(c)
    \/ GetFrameCheck(c)
    \/ GetFrameTake(c)
    \/ GetFrameEmpty(c)
    \/ GetFrameStore(c)
    \/ GetFrameFallback(c)

Status(c) ==
    \/ StatusStart(c)
    \/ StatusItem(c)
    \/ StatusReturn(c)
    \/ StatusError(c)

StopAll(c) ==
    \/ StopSignal(c)
    \/ StopJoin(c)

\* a worker of a stream whose reads succeed
Worker(w) ==
    \/ WBind(w)
    \/ WRead(w)
    \/ WInfo(w)
    \/ WDrain(w)
    \/ WPut(w)
    \/ WPutBlock(w)

\* Requests that register streams of every kind of source.
NextAdd ==
    \/ \E c \in Callers : AddStream(c) \/ Probe(c)
    \/ \E w \in Workers : WBind(w) \/ WBindError(w) \/ WRead(w) \/ WInfo(w)

SpecAdd == InitWith({"a"}, Urls) /\ [][NextAdd]_vars

\* Requests that register streams, start workers and ask for the status.
NextStart ==
    \/ \E c \in Callers : AddStream(c) \/ StartMonitoring(c) \/ Status(c)
    \/ \E w \in Workers : Worker(w) \/ WNoQueue(w)

SpecStart == InitWith({"a"}, {"demo"}) /\ [][NextStart]_vars

\* Requests that register a stream and ask for the status while the
\* stream's worker writes its frames into the registry entry.
NextStatus ==
    \/ \E c \in Callers : AddStream(c) \/ Status(c)
    \/ \E w \in Workers : WBind(w) \/ WRead(w) \/ WInfo(w)

SpecStatus == InitWith({"a"}, {"demo"}) /\ [][NextStatus]_vars

\* Requests that register a stream and read its frames.
NextSlot ==
    \/ \E c \in Callers : \/ AddStream(c) \/ GetFrame(c) \/ ProcessFrame(c)
                          \/ GetStreamFrame(c)
    \/ \E w \in Workers : Worker(w) \/ WPutWake(w)

SpecSlot == InitWith({"a"}, {"demo"}) /\ [][NextSlot]_vars

\* Requests that register streams and stop them.
NextStop ==
    \/ \E c \in Callers : AddStream(c) \/ SaveError(c) \/ StopAll(c)
    \/ \E w \in Workers : Worker(w) \/ WExit(w)

SpecStop == InitWith(Names, {"demo"}) /\ [][NextStop]_vars

\* A webcam whose reads fail.
NextWebcam ==
    \/ \E c \in Callers : AddStream(c) \/ StopAll(c)
    \/ \E w \in Workers : Worker(w) \/ WBindError(w) \/ WReadFail(w) \/ WExit(w)

SpecWebcam == InitWith({"a"}, {"0"}) /\ [][NextWebcam]_vars

\* The constructor's load of the stream file, then requests that register
\* more streams.
NextLoad ==
    \/ \E c \in Callers : LoadItem(c) \/ AddStream(c) \/ Probe(c)
    \/ \E w \in Workers : WBind(w)

SpecLoad == InitLoad /\ [][NextLoad]_vars

\* The manager constructed on a stream file that lists the webcam as "a"
\* and a demo stream as "b" (lines 30-59), after two calls of
\* start_stream_monitoring have returned: one for each stream, or two for
\* "b" that raced (both passed line 184 before either reached line 196).
\* The workers are started and have not yet run line 203.
InitStarted ==
    /\ names = Names
    /\ urls = {"demo"}
    /\ active_streams =
          [n \in Names |->
             IF n = "a" THEN NewInfo("0", "Lobby", 1)
             ELSE NewInfo("demo", "Lobby", 2)]
    /\ frame_queues =
          [n \in Names |-> IF n = "a" THEN NewQueue(1) ELSE NewQueue(2)]
    /\ running = TRUE
    /\ db = [n \in Names |->
               [url |-> IF n = "a" THEN "0" ELSE "demo", location |-> "Lobby"]]
    /\ loading = EmptyDict
    /\ streams_data = db
    /\ nextFrame = 1
    /\ nextGen = 3
    /\ calls = 2
    /\ lastPut = [n \in Names |-> NoFrame]
    /\ stopSeen = {}
    /\ \/ /\ stream_threads = [n \in Names |-> IF n = "a" THEN 1 ELSE 2]
          /\ wk = [w \in Workers |->
                     IF w = 1 THEN [NewWorker EXCEPT !.pc = "w_bind"]
                     ELSE IF w = 2
                     THEN [NewWorker EXCEPT !.pc = "w_bind", !.name = "b"]
                     ELSE NewWorker]
          /\ call = [c \in Callers |->
                       IF c = 1
                       THEN Returned(Entered("start_stream_monitoring", "b",
                                             "demo", "Lobby", TRUE), "True")
                       ELSE IdleCall]
       \/ /\ stream_threads = [n \in {"b"} |-> 2]
          /\ wk = [w \in Workers |->
                     IF w \in {1, 2}
                     THEN [NewWorker EXCEPT !.pc = "w_bind", !.name = "b"]
                     ELSE NewWorker]
          /\ call = [c \in Callers |->
                       Returned(Entered("start_stream_monitoring", "b",
                                        "demo", "Lobby", TRUE), "True")]
    /\ embedding1 = NoEmbedding
    /\ embedding2 = NoEmbedding
    /\ result = NoResult
    /\ embedding_data = NoEmbedding
    /\ quality = NoQuality
    /\ image = "None"
    /\ extracted = FALSE
    /\ persons = <<>>
    /\ faces = <<>>
    /\ store = "ok"
    /\ NoSaves

\* Two stored streams whose workers run, the webcam failing, and requests
\* that stop them.
NextIsolation ==
    \/ \E c \in Callers : StopAll(c)
    \/ \E w \in Workers : \/ Worker(w) \/ WBindError(w) \/ WReadFail(w)
                          \/ WExit(w)

SpecIsolation == InitStarted /\ [][NextIsolation]_vars

\* The manager constructed on a stream file that lists two demo streams
\* (lines 30-59), after a call of start_stream_monitoring("b") has
\* returned: the worker of "b" is started and has not yet run line 203;
\* "a" is registered and has no worker.
InitStopping ==
    /\ names = Names
    /\ urls = {"demo"}
    /\ active_streams =
          [n \in Names |-> NewInfo("demo", "Lobby", IF n = "a" THEN 1 ELSE 2)]
    /\ frame_queues =
          [n \in Names |-> IF n = "a" THEN NewQueue(1) ELSE NewQueue(2)]
    /\ stream_threads = [n \in {"b"} |-> 1]
    /\ running = TRUE
    /\ db = [n \in Names |-> [url |-> "demo", location |-> "Lobby"]]
    /\ loading = EmptyDict
    /\ streams_data = db
    /\ nextFrame = 1
    /\ nextGen = 3
    /\ calls = 1
    /\ lastPut = [n \in Names |-> NoFrame]
    /\ stopSeen = {}
    /\ wk = [w \in Workers |->
               IF w = 1 THEN [NewWorker EXCEPT !.pc = "w_bind", !.name = "b"]
               ELSE NewWorker]
    /\ call = [c \in Callers |->
                 IF c = 1
                 THEN Returned(Entered("start_stream_monitoring", "b",
                                       "demo", "Lobby", TRUE), "True")
                 ELSE IdleCall]
    /\ embedding1 = NoEmbedding
    /\ embedding2 = NoEmbedding
    /\ result = NoResult
    /\ embedding_data = NoEmbedding
    /\ quality = NoQuality
    /\ image = "None"
    /\ extracted = FALSE
    /\ persons = <<>>
    /\ faces = <<>>
    /\ store = "ok"
    /\ NoSaves

\* Requests that stop the streams and start monitoring again.
NextRestart ==
    \/ \E c \in Callers : \/ StopAll(c) \/ StartMonitoring(c)
                          \/ SsmSpawn(c) \/ SsmStore(c)
    \/ \E w \in Workers : \/ WBind(w) \/ WRead(w) \/ WInfo(w) \/ WDrain(w)
                          \/ WPut(w) \/ WExit(w)

SpecRestart == InitStopping /\ [][NextRestart]_vars

\* The application about to serve requests for the frames of "b". Either
\* it has just been created with no stream file, create_app having added
\* the demo stream and started its worker (app.py lines 107-113), or it is
\* the manager of InitStarted after the two calls for "b" that raced.
InitServing ==
    /\ names = {"b"}
    /\ urls = {"demo"}
    /\ running = TRUE
    /\ loading = EmptyDict
    /\ nextFrame = 1
    /\ lastPut = [n \in Names |-> NoFrame]
    /\ stopSeen = {}
    /\ \/ /\ active_streams = [n \in {"b"} |-> NewInfo("demo", "Lobby", 1)]
          /\ frame_queues = [n \in {"b"} |-> NewQueue(1)]
          /\ stream_threads = [n \in {"b"} |-> 1]
          /\ db = [n \in {"b"} |-> [url |-> "demo", location |-> "Lobby"]]
          /\ streams_data = EmptyDict
          /\ nextGen = 2
          /\ calls = 0
          /\ wk = [w \in Workers |->
                     IF w = 1
                     THEN [NewWorker EXCEPT !.pc = "w_bind", !.name = "b"]
                     ELSE NewWorker]
          /\ call = [c \in Callers |-> IdleCall]
       \/ /\ active_streams =
                [n \in Names |->
                   IF n = "a" THEN NewInfo("0", "Lobby", 1)
                   ELSE NewInfo("demo", "Lobby", 2)]
          /\ frame_queues =
                [n \in Names |-> IF n = "a" THEN NewQueue(1) ELSE NewQueue(2)]
          /\ stream_threads = [n \in {"b"} |-> 2]
          /\ db = [n \in Names |->
                     [url |-> IF n = "a" THEN "0" ELSE "demo",
                      location |-> "Lobby"]]
          /\ streams_data = db
          /\ nextGen = 3
          /\ calls = 2
          /\ wk = [w \in Workers |->
                     IF w \in {1, 2}
                     THEN [NewWorker EXCEPT !.pc = "w_bind", !.name = "b"]
                     ELSE NewWorker]
          /\ call = [c \in Callers |->
                       Returned(Entered("start_stream_monitoring", "b",
                                        "demo", "Lobby", TRUE), "True")]
    /\ embedding1 = NoEmbedding
    /\ embedding2 = NoEmbedding
    /\ result = NoResult
    /\ embedding_data = NoEmbedding
    /\ quality = NoQuality
    /\ image = "None"
    /\ extracted = FALSE
    /\ persons = <<>>
    /\ faces = <<>>
    /\ store = "ok"
    /\ NoSaves

\* Requests that read the frames of a stream and run the detection on it
\* while its worker, or its two workers, write them.
NextServing ==
    \/ \E c \in Callers : \/ GetFrameCheck(c) \/ GetFrameTake(c)
                          \/ GetFrameEmpty(c) \/ GetFrameStore(c)
                          \/ GetFrameFallback(c) \/ ProcessFrame(c)
    \/ \E w \in Workers : Worker(w) \/ WPutWake(w)

SpecServing == InitServing /\ [][NextServing]_vars

\* A manager about to serve requests, a person file and a camera's view.
InitPipeline ==
    /\ names = {"a"}
    /\ urls = {"demo"}
    /\ active_streams = EmptyDict
    /\ frame_queues = EmptyDict
    /\ stream_threads = EmptyDict
    /\ running = FALSE
    /\ db = EmptyDict
    /\ call = [c \in Callers |-> IdleCall]
    /\ wk = [w \in Workers |-> NewWorker]
    /\ nextFrame = 1
    /\ nextGen = 1
    /\ calls = 0
    /\ lastPut = [n \in Names |-> NoFrame]
    /\ stopSeen = {}
    /\ loading = EmptyDict
    /\ streams_data = EmptyDict
    /\ embedding1 = NoEmbedding
    /\ embedding2 = NoEmbedding
    /\ result = NoResult
    /\ embedding_data = NoEmbedding
    /\ quality = NoQuality
    /\ image = "None"
    /\ extracted = FALSE
    /\ persons \in PersonLists
    /\ faces \in Scenes
    /\ store \in {"ok", "fails"}
    /\ NoSaves

\* Requests that register a stream and run the detection on its frames.
NextPipeline ==
    \/ \E c \in Callers : AddStream(c) \/ ProcessFrame(c)
    \/ \E w \in Workers : WBind(w) \/ WRead(w) \/ WInfo(w)

SpecPipeline == InitPipeline /\ [][NextPipeline]_vars

\* Validations of one face.
NextQuality == Validate

SpecQuality == InitQuality /\ [][NextQuality]_vars

\* Requests that register a stream, register the webcam under a name and
\* start workers.
NextRegister ==
    \/ \E c \in Callers : AddStream(c) \/ AddWebcam(c) \/ StartMonitoring(c)
    \/ \E w \in Workers : WBind(w) \/ WBindError(w) \/ WRead(w) \/ WInfo(w)

SpecRegister == InitWith({"a"}, {"demo"}) /\ [][NextRegister]_vars

\* Requests that register streams, register the webcam under a name, start
\* workers and stop them. Of the workers' steps the end at line 203 or at
\* lines 214-216 is followed, after which a stream can be given a new
\* worker; no step of a worker adds or removes a key of the two dicts.
NextSlots ==
    \/ \E c \in Callers : \/ AddStream(c) \/ AddWebcam(c)
                          \/ StartMonitoring(c) \/ StopAll(c)
    \/ \E w \in Workers : WBindError(w)

SpecSlots == InitWith({"a"}, {"demo"}) /\ [][NextSlots]_vars

\* Extractions from one image.
NextExtract == Extract

SpecExtract == InitExtract /\ [][NextExtract]_vars

\* Calls of save_detection_to_db by the request threads.
NextStore == \E c \in Callers : SaveRead(c) \/ SaveStore(c) \/ SaveFails(c)

SpecStore == InitStore /\ [][NextStore]_vars

\* Comparisons of two embeddings.
NextCompare == Compare

SpecCompare == InitCompare /\ [][NextCompare]_vars

\* The load, every request, every worker step and the comparison.
Next ==
    \/ Compare
    \/ Validate
    \/ Extract
    \/ \E c \in Callers : SaveRead(c) \/ SaveStore(c) \/ SaveFails(c)
    \/ \E c \in Callers : \/ LoadItem(c)
                          \/ AddStream(c) \/ Probe(c) \/ SaveError(c)
                          \/ AddWebcam(c)
                          \/ StartMonitoring(c) \/ GetFrame(c) \/ Status(c)
                          \/ StopAll(c) \/ ProcessFrame(c)
                          \/ GetStreamFrame(c)
    \/ \E w \in Workers : \/ Worker(w) \/ WBindError(w) \/ WNoQueue(w)
                          \/ WPutWake(w) \/ WReadFail(w) \/ WExit(w)

Spec == InitLoad /\ [][Next]_vars

\* ================================================================ claims
\* The manager's state apart from the threads' locals.
manager == <<active_streams, frame_queues, stream_threads, running, db, wk>>

\* The step in which request thread c leaves the call op it was in.
Returns(c, op) ==
    /\ call[c].pc # "idle"
    /\ call[c].op = op
    /\ call'[c].pc = "idle"

\* C1: for every stream name at most one worker thread is alive, whatever
\* the interleaving of add_stream and start_stream_monitoring calls.
C1_OneWorkerPerStream ==
    \A n \in Names : Cardinality(LiveWorkers(n)) <= 1

\* C2: a get_current_frame call that returns a frame never returns one older
\* than the newest put completed on the stream's queue before the call
\* began. Stated for runs in which the stream was registered once, so that
\* one worker is the only writer.
C2_ReadNotStale ==
    [][\A c \in Callers :
          (Returns(c, "get_current_frame") /\ call'[c].ret = "frame"
              /\ nextGen = 2)
          => call'[c].frame >= call[c].floor]_vars

\* C3: a write into a stream's queue never blocks: no worker is ever held in
\* the put of line 252.
C3_PutNeverBlocks ==
    \A w \in Workers : wk[w].pc # "w_blocked"

\* C4: a worker that was alive when stop_all_streams gave the signal leaves
\* its loop the next time it evaluates the loop condition of line 218.
C4_StoppedWorkerLeaves ==
    [][\A w \in stopSeen :
          (wk[w].pc = "w_loop" /\ wk'[w].pc # "w_loop")
          => wk'[w].pc = "dead"]_vars

\* C5: a worker whose source stays unreachable makes no more than MaxAttempts
\* attempts in a row: after MaxAttempts failures the stream is Stopped and
\* the worker tries no more. fails counts the consecutive failed reads.
C5_AttemptsCapped ==
    \A w \in Workers : wk[w].fails <= MaxAttempts

\* C6: a worker that has failed more than ErrThreshold reads in a row is
\* Reconnecting: it has abandoned the connection it was reading from, and the
\* stream's error counter shows the failures.
C6_ReconnectsPastThreshold ==
    \A w \in Workers :
        (IsAlive(w) /\ Bound(w) /\ wk[w].fails > ErrThreshold)
        => /\ wk[w].cap # "open"
           /\ active_streams[wk[w].name].error_count > 0

\* The step in which request thread c calls add_stream (the lowest idle
\* thread makes the next call).
CallsAddStream(c) ==
    /\ call[c].pc = "idle"
    /\ \A d \in Callers : d < c => call[d].pc # "idle"
    /\ calls' = calls + 1
    /\ call'[c].op = "add_stream"

\* C7: add_stream called with a registered name returns False at once and
\* leaves the registry entry, the queue, the worker and the persisted record
\* as they were.
C7_DuplicateRejected ==
    [][\A c \in Callers :
          (CallsAddStream(c) /\ call'[c].name \in DOMAIN active_streams)
          => /\ call'[c].pc = "idle"
             /\ call'[c].ret = "False"
             /\ UNCHANGED manager]_vars

\* a duplicate add_stream has returned False while the stream it found is
\* registered, has its queue and its worker
C7_Witness ==
    \E c \in Callers :
        /\ call[c].pc = "idle"
        /\ call[c].op = "add_stream"
        /\ call[c].ret = "False"
        /\ call[c].probe = "none"
        /\ call[c].name \in DOMAIN active_streams
        /\ call[c].name \in DOMAIN frame_queues
        /\ LiveWorkers(call[c].name) # {}

\* C8: an add_stream whose probe fails returns False in that step and changes
\* nothing: no registry entry, no queue, no worker; and a probe is only ever
\* made for a URI that is neither "0" nor "demo".
C8_ProbeFailureRejected ==
    [][\A c \in Callers :
          /\ (call'[c].probe = "failed" /\ call[c].probe # "failed")
             => /\ call[c].pc = "as_probe"
                /\ call'[c].pc = "idle"
                /\ call'[c].ret = "False"
                /\ UNCHANGED manager
          /\ call'[c].pc = "as_probe"
             => call'[c].url \notin {"0", "demo"}
          /\ (call'[c].pc = "as_reg" /\ call'[c].url \in {"0", "demo"})
             => call'[c].probe = "none"]_vars

\* an add_stream has returned False after a failed probe, and the name has
\* no registry entry, no queue and no worker
C8_Witness ==
    \E c \in Callers :
        /\ call[c].pc = "idle"
        /\ call[c].op = "add_stream"
        /\ call[c].ret = "False"
        /\ call[c].probe = "failed"
        /\ call[c].name \notin DOMAIN active_streams
        /\ call[c].name \notin DOMAIN frame_queues
        /\ LiveWorkers(call[c].name) = {}

\* C9: an add_stream that returns True has registered the stream, created
\* its queue and started exactly one worker for it.
C9_TrueMeansStarted ==
    [][\A c \in Callers :
          (Returns(c, "add_stream") /\ call'[c].ret = "True")
          => /\ call[c].name \in DOMAIN active_streams
             /\ call[c].name \in DOMAIN frame_queues
             /\ call[c].spawned = 1]_vars

\* C10: a name is registered at most once (the step of lines 95-103 is only
\* taken for a name that has no entry), and get_stream_status never ends in
\* the RuntimeError of a dict that changed size under its loop.
C10_RegisteredOnce ==
    [][\A c \in Callers :
          /\ (call[c].pc = "as_reg" /\ call'[c].pc = "as_queue")
             => call[c].name \notin DOMAIN active_streams
          /\ ~(call'[c].op = "get_stream_status"
               /\ call'[c].ret = "RuntimeError")]_vars

\* The step in which request thread c calls the method op (the lowest idle
\* thread makes the next call).
Calls(c, op) ==
    /\ call[c].pc = "idle"
    /\ \A d \in Callers : d < c => call[d].pc # "idle"
    /\ calls' = calls + 1
    /\ call'[c].op = op

\* The step in which thread c evaluates lines 180-184 of
\* start_stream_monitoring, called by a request or by add_stream.
SsmDecides(c) ==
    \/ Calls(c, "start_stream_monitoring")
    \/ call[c].pc = "ssm_check" /\ call'[c].pc # "ssm_check"

\* C11: start_stream_monitoring for a registered name that has a live worker
\* spawns nothing and changes no state; for one that has no live worker it
\* goes on to spawn one.
C11_StartIdempotent ==
    [][\A c \in Callers :
          (SsmDecides(c) /\ call'[c].name \in DOMAIN active_streams)
          => IF LiveWorkers(call'[c].name) # {}
             THEN call'[c].pc # "ssm_spawn" /\ UNCHANGED manager
             ELSE call'[c].pc = "ssm_spawn"]_vars

\* The step thread c takes inside get_stream_status (the call included).
StatusSteps(c) ==
    \/ Calls(c, "get_stream_status")
    \/ call[c].pc = "gss_it" /\ call'[c] # call[c]

\* C12: no step of get_stream_status changes a registry entry, a queue or a
\* worker, and the mapping it returns lists exactly the registered names,
\* each with the location, active flag, error count and URI of its entry and
\* a last update the entry has held, while workers go on writing.
C12_StatusReadOnly ==
    [][\A c \in Callers :
          StatusSteps(c)
          => /\ UNCHANGED manager
             /\ call'[c].ret = "status"
                => /\ DOMAIN call[c].acc = DOMAIN active_streams
                   /\ \A k \in DOMAIN call[c].acc :
                         /\ call[c].acc[k].location = active_streams[k].location
                         /\ call[c].acc[k].active = active_streams[k].active
                         /\ call[c].acc[k].error_count
                               = active_streams[k].error_count
                         /\ call[c].acc[k].url = active_streams[k].url
                         /\ call[c].acc[k].last_update < nextFrame]_vars

\* get_stream_status is about to return a stream whose worker has written a
\* newer frame since the stream's item was read
C12_Witness ==
    \E c \in Callers, k \in DOMAIN active_streams :
        /\ call[c].pc = "gss_it"
        /\ ~IterBroken(call[c])
        /\ IterLeft(call[c]) = {}
        /\ k \in DOMAIN call[c].acc
        /\ call[c].acc[k].last_update < active_streams[k].last_update
        /\ LiveWorkers(k) # {}

\* C13: a stream whose worker has ended without stop_all_streams having
\* signalled it is registered and its entry says inactive.
C13_DeadWorkerInactive ==
    \A w \in Workers :
        (wk[w].pc = "dead" /\ w \notin stopSeen)
        => /\ wk[w].name \in DOMAIN active_streams
           /\ ~active_streams[wk[w].name].active

\* The constructor has returned and no request has been made yet.
Constructed ==
    /\ calls = 0
    /\ loading = EmptyDict
    /\ \A c \in Callers : call[c].pc = "idle"

\* C14: while the constructor loads the stream file and when it returns, no
\* worker thread has been started and no Thread is stored for any stream;
\* when it returns every registered stream has its queue.
C14_LoadStartsNoWorker ==
    /\ calls = 0
       => /\ \A w \in Workers : wk[w].pc = "unstarted"
          /\ stream_threads = EmptyDict
          /\ ~running
    /\ Constructed => DOMAIN frame_queues = DOMAIN active_streams

\* the constructor has returned with every stream of a two-stream file
\* registered and no worker started
C14_Witness ==
    /\ Constructed
    /\ DOMAIN active_streams = Names
    /\ \A w \in Workers : ~IsAlive(w)
    /\ \E c \in Callers : call[c].op = "add_stream" /\ call[c].ret = "True"

\* What save_streams_to_db writes for the registry d (lines 67-73).
Persisted(d) ==
    [k \in DOMAIN d |-> [url |-> d[k].url, location |-> d[k].location]]

\* C15: whenever no add_stream call is in progress the stream file lists
\* exactly the registered streams.
C15_StoreMatchesRegistry ==
    (loading = EmptyDict /\ \A c \in Callers : call[c].pc = "idle")
    => db = Persisted(active_streams)

\* The step in which thread c's call of op ends.
Ends(c, op) ==
    /\ Calls(c, op) \/ (call[c].pc # "idle" /\ call[c].op = op)
    /\ call'[c].pc = "idle"

\* get_current_frame on a registered stream returns an image: a frame some
\* worker has captured, or the placeholder when there is none.
ManagerFrameRenderable(c) ==
    (Ends(c, "get_current_frame") /\ call'[c].name \in DOMAIN active_streams)
    => /\ call'[c].ret \in {"placeholder", "frame"}
       /\ call'[c].ret = "frame" => call'[c].frame \in 1..(nextFrame - 1)

\* C16: a request for the frame of a registered stream always gets an image,
\* the placeholder when no frame has been written, through
\* get_current_frame and through the route get_stream_frame.
C16_AlwaysRenderable ==
    [][\A c \in Callers :
          /\ ManagerFrameRenderable(c)
          /\ (Ends(c, "get_stream_frame")
              /\ call'[c].name \in DOMAIN active_streams)
             => call'[c].ret \in {"placeholder", "frame"}]_vars

\* A valid embedding: the dict with a vector of the reference's length that
\* is not the zero vector.
Valid(e) ==
    /\ e.tag = "dict"
    /\ e.has
    /\ e.kind = "vector"
    /\ Len(e.vec) = Len(Reference)
    /\ Dot(e.vec, e.vec) # 0

\* C17: for two valid embeddings the band returned is VERY_HIGH iff the
\* similarity returned is above 0.75, HIGH iff it is in (0.65, 0.75], MEDIUM
\* iff in (0.55, 0.65], LOW iff in (0.45, 0.55], VERY_LOW otherwise
\* (similarities in thousandths).
C17_BandsBySimilarity ==
    (result # NoResult /\ Valid(embedding1) /\ Valid(embedding2))
    => /\ ~result.nan
       /\ result.confidence = "VERY_HIGH" <=> result.similarity > 750
       /\ result.confidence = "HIGH"
             <=> (result.similarity > 650 /\ result.similarity <= 750)
       /\ result.confidence = "MEDIUM"
             <=> (result.similarity > 550 /\ result.similarity <= 650)
       /\ result.confidence = "LOW"
             <=> (result.similarity > 450 /\ result.similarity <= 550)
       /\ result.confidence = "VERY_LOW" <=> result.similarity <= 450

\* two valid embeddings whose similarity is exactly 0.75 have been compared
\* and the band is HIGH
C17_Witness ==
    /\ Valid(embedding1)
    /\ Valid(embedding2)
    /\ result.similarity = 750
    /\ result.confidence = "HIGH"

\* An embedding that is missing, lacks the vector or holds no vector.
Malformed(e) ==
    \/ e.tag = "None"
    \/ ~e.has
    \/ e.kind # "vector"
    \/ e.vec = <<>>

\* C18: when either embedding is missing or malformed, or the two vectors
\* differ in length, compare_embeddings returns similarity exactly 0.0 and a
\* band that is none of the five confidence bands.
C18_InvalidInputBand ==
    (/\ result # NoResult
     /\ \/ Malformed(embedding1)
        \/ Malformed(embedding2)
        \/ Len(embedding1.vec) # Len(embedding2.vec))
    => /\ result.similarity = 0
       /\ ~result.nan
       /\ result.confidence
             \notin {"VERY_HIGH", "HIGH", "MEDIUM", "LOW", "VERY_LOW"}

\* floating-point tolerance of a similarity, in thousandths
Tolerance == 1

\* C19: a valid embedding compared with itself has similarity 1.0 within
\* the tolerance, and the band VERY_HIGH.
C19_SelfSimilarity ==
    (result # NoResult /\ Valid(embedding1) /\ embedding2 = embedding1)
    => /\ ~result.nan
       /\ result.similarity >= 1000 - Tolerance
       /\ result.similarity <= 1000 + Tolerance
       /\ result.confidence = "VERY_HIGH"

\* a valid embedding with several non-zero components has been compared
\* with itself
C19_Witness ==
    /\ result # NoResult
    /\ Valid(embedding1)
    /\ embedding2 = embedding1
    /\ embedding1.vec[2] # 0
    /\ embedding1.vec[3] # 0

Runs(c) == Ends(c, "process_frame_for_detection")

\* The events a run of thread c has returned.
Events(c) == call'[c].acc

\* The stream's slot holds a frame: one is queued, or the entry keeps one.
HasFrame(n) ==
    /\ n \in DOMAIN active_streams
    /\ \/ active_streams[n].last_frame # NoFrame
       \/ n \in DOMAIN frame_queues /\ frame_queues[n].q # <<>>

\* The slot of a registered stream is empty.
EmptySlot(n) ==
    /\ n \in DOMAIN active_streams
    /\ active_streams[n].last_frame = NoFrame
    /\ n \in DOMAIN frame_queues => frame_queues[n].q = <<>>

\* The face with the highest detection score, as line 55 of
\* face_matcher.py selects it.
BestFace ==
    CHOOSE k \in 1..Len(faces) :
        \A j \in 1..Len(faces) : faces[j].det_score <= faces[k].det_score

\* The camera sees one face and its detection passes the quality threshold.
OneGoodFace ==
    /\ Len(faces) = 1
    /\ faces[1].det_score >= QualityThreshold

\* C21: a run that evaluates a face returns one event, naming the first
\* person in the file's order whose similarity with the face exceeds the
\* threshold, whatever the similarity of later persons; it returns no event
\* when no person exceeds the threshold.
C21_FirstMatchWins ==
    [][\A c \in Callers :
          (Runs(c) /\ HasFrame(call'[c].name) /\ OneGoodFace)
          => Events(c) = IF FirstMatch(faces[1]) = 0 THEN <<>>
                         ELSE <<Detection(1, FirstMatch(faces[1]))>>]_vars

\* C22: a run on a frame with faces compares the face with the highest
\* detection score and no other, and returns at most one event.
C22_SingleBestFace ==
    [][\A c \in Callers :
          (/\ Runs(c)
           /\ HasFrame(call'[c].name)
           /\ faces # <<>>
           /\ faces[BestFace].det_score >= QualityThreshold)
          => /\ call'[c].compared = {BestFace}
             /\ Len(Events(c)) <= 1]_vars

\* C23: a run on a registered stream whose slot is empty returns no events,
\* calls no detection and writes nothing: not the slot, not the entry.
C23_EmptySlotNoEvents ==
    [][\A c \in Callers :
          (Runs(c) /\ EmptySlot(call'[c].name))
          => /\ call'[c].ret = "[]"
             /\ Events(c) = <<>>
             /\ ~call'[c].detected
             /\ UNCHANGED manager]_vars

\* Thread 1 has registered the stream "a" and then made a run, the only two
\* calls so far.
RanAfterAdd ==
    /\ calls = 2
    /\ call[2].op = "none"
    /\ call[1].pc = "idle"
    /\ call[1].op = "process_frame_for_detection"
    /\ "a" \in DOMAIN active_streams

\* A run has returned for a stream whose slot is still empty, a person in
\* the file matching the face in view.
C23_Witness ==
    /\ RanAfterAdd
    /\ EmptySlot("a")
    /\ OneGoodFace
    /\ FirstMatch(faces[1]) # 0

\* C24: a run returns no events when no face is detected, and none when the
\* best face's detection score is below the quality threshold, whatever the
\* similarity of that face with a registered person.
C24_LowQualityNoEvents ==
    [][\A c \in Callers :
          (/\ Runs(c)
           /\ \/ faces = <<>>
              \/ faces[BestFace].det_score < QualityThreshold)
          => /\ call'[c].ret = "[]"
             /\ Events(c) = <<>>]_vars

\* A run has returned for a stream that holds a frame, the camera seeing a
\* face below the quality threshold which a registered person matches.
C24_Witness ==
    /\ RanAfterAdd
    /\ HasFrame("a")
    /\ faces # <<>>
    /\ faces[BestFace].det_score < QualityThreshold
    /\ FirstMatch(faces[BestFace]) # 0

\* C25: when the detections file cannot be written, a run that matches a
\* person still returns the event and writes the annotated frame back.
C25_StoreFailureTolerated ==
    [][\A c \in Callers :
          (/\ Runs(c)
           /\ HasFrame(call'[c].name)
           /\ OneGoodFace
           /\ FirstMatch(faces[1]) # 0
           /\ store = "fails")
          => /\ Events(c) = <<Detection(1, FirstMatch(faces[1]))>>
             /\ call'[c].name \in DOMAIN frame_queues'
             /\ frame_queues'[call'[c].name].q # <<>>]_vars

\* C26: a run that fails returns the empty list and passes no exception to
\* its caller. Every run fails, in the fetch of line 164.
C26_FailureContained ==
    [][\A c \in Callers :
          Runs(c) => call'[c].ret = "[]" /\ Events(c) = <<>>]_vars

\* A run has failed and returned for a stream that holds a frame in which a
\* registered person is to be seen.
C26_Witness ==
    /\ RanAfterAdd
    /\ call[1].ret = "[]"
    /\ HasFrame("a")
    /\ OneGoodFace
    /\ FirstMatch(faces[1]) # 0

\* What the manager holds for the streams other than n.
Others(n) ==
    [m \in Names \ {n} |->
       <<IF m \in DOMAIN active_streams THEN <<active_streams[m]>> ELSE <<>>,
         IF m \in DOMAIN frame_queues THEN <<frame_queues[m]>> ELSE <<>>,
         IF m \in DOMAIN stream_threads THEN <<stream_threads[m]>> ELSE <<>>>>]

\* C27: a step of a worker, failing or not, changes no other stream's
\* registry entry, queue or stored thread, and no other worker.
C27_StreamsIsolated ==
    [][\A w \in Workers :
          (wk[w].pc # "unstarted" /\ wk'[w] # wk[w])
          => /\ Others(wk[w].name)' = Others(wk[w].name)
             /\ \A v \in Workers \ {w} : wk'[v] = wk[v]]_vars

\* The webcam's worker has ended on a failure or goes on failing its reads,
\* and the worker of the other stream has since put a frame.
C27_Witness ==
    \E w, v \in Workers :
        /\ wk[w].name = "a"
        /\ wk[w].pc = "dead" \/ wk[w].fails > 0
        /\ wk[v].name = "b"
        /\ IsAlive(v)
        /\ lastPut["b"] # NoFrame
        /\ frame_queues["b"].q # <<>>

\* The workers started for the stream that worker w writes, w apart.
OtherWriters(w) ==
    {v \in Workers \ {w} : wk[v].pc # "unstarted" /\ wk[v].name = wk[w].name}

\* C28: a worker that is the only writer of its stream's queue is never held
\* in the put of line 252, however the calls of get_current_frame interleave
\* with its drain and its put.
C28_SoleWriterNeverBlocks ==
    \A w \in Workers : OtherWriters(w) = {} => wk[w].pc # "w_blocked"

\* The only worker of "b" has completed two puts and is about to put again
\* while two calls of get_current_frame are under way, one holding the frame
\* it took from the queue.
C28_Witness ==
    \E w \in Workers :
        /\ wk[w].name = "b"
        /\ wk[w].pc = "w_put"
        /\ OtherWriters(w) = {}
        /\ lastPut["b"] >= 2
        /\ \A c \in Callers : call[c].op = "get_current_frame"
        /\ \E c \in Callers : call[c].pc = "gcf_store"
        /\ \E c \in Callers : call[c].pc \in {"gcf_get", "gcf_fallback"}

\* C29: the queue of every stream holds at most one frame.
C29_SlotHoldsOne ==
    \A n \in DOMAIN frame_queues : Len(frame_queues[n].q) <= QueueSize

\* The queue of "b" is full, one of its two workers is held in its put with
\* a further frame, the other has captured the next one, and a reader is
\* about to take the queued frame.
C29_Witness ==
    /\ Len(frame_queues["b"].q) = QueueSize
    /\ \E w, v \in Workers :
          /\ wk[w].name = "b" /\ wk[w].pc = "w_blocked"
          /\ wk[v].name = "b" /\ wk[v].pc \in {"w_info", "w_drain"}
    /\ \E c \in Callers : call[c].pc = "gcf_get"

\* C30: validate_face_quality answers (False, reason) exactly when its
\* argument is None or its detection score, 0 when there is none, is below
\* the quality threshold; it answers (True, reason) otherwise, a score equal
\* to the threshold included; it never raises.
C30_QualityGate ==
    quality # NoQuality
    => /\ quality.raised = "none"
       /\ quality.reason # "none"
       /\ quality.ok
             = ~(\/ embedding_data.tag = "None"
                 \/ (IF embedding_data.has_score
                     THEN embedding_data.det_score ELSE 0) < QualityThreshold)

\* C31: extract_embeddings returns the data of a detected face whose
\* detection score is the highest of all faces detected in the image, and
\* None when the image cannot be loaded or no face is detected in it.
C31_BestFaceSelected ==
    extracted
    => IF image = "None" \/ faces = <<>>
       THEN embedding_data = NoEmbedding
       ELSE /\ embedding_data.tag = "dict"
            /\ \E k \in 1..Len(faces) :
                  /\ embedding_data.vec = faces[k].embedding
                  /\ embedding_data.det_score = faces[k].det_score
                  /\ \A j \in 1..Len(faces) :
                        faces[j].det_score <= faces[k].det_score

\* The embedding of an image has been extracted in which the best detected
\* face is not the first one and two other faces are detected equally well.
C31_Witness ==
    /\ extracted
    /\ Len(faces) = 3
    /\ faces[1].det_score = faces[2].det_score
    /\ faces[1].embedding # faces[2].embedding
    /\ faces[3].det_score > faces[1].det_score
    /\ embedding_data.tag = "dict"
    /\ embedding_data.vec = faces[3].embedding

\* C32: after any sequence of successful save_detection_to_db calls, one
\* call at a time, the detections file holds at most 1000 records: the most
\* recently saved ones, in the order they were saved.
C32_KeepsLatest ==
    (~overlap /\ \A c \in Callers : saving[c].pc = "idle")
    => /\ Len(detections_file) <= 1000
       /\ Len(detections_file) = IF Len(saved) > 1000 THEN 1000 ELSE Len(saved)
       /\ \A i \in 1..Len(detections_file) :
             detections_file[i]
                = saved[Len(saved) - Len(detections_file) + i]

\* Three calls, one at a time, have returned True on a file that held 999
\* records: the file has lost its two oldest records.
C32_Witness ==
    /\ ~overlap
    /\ \A c \in Callers : saving[c].pc = "idle"
    /\ saves = 3
    /\ Len(saved) = 1002
    /\ detections_file[1] = saved[3]
    /\ detections_file[1000] = 3

\* C33: when no call is in progress, every live worker is the worker of a
\* registered stream: none runs for a name that get_stream_status does not
\* list, whatever add_stream, add_webcam_stream and start_stream_monitoring
\* calls were made, an add_webcam_stream on a registered name whose webcam
\* test fails included.
C33_WorkersRegistered ==
    (\A c \in Callers : call[c].pc = "idle")
    => \A w \in Workers : IsAlive(w) => wk[w].name \in DOMAIN active_streams

\* C34: a worker that was running when stop_all_streams gave the signal
\* never resumes streaming: it captures no further frame, whatever
\* start_stream_monitoring calls, for its stream or for another one, are
\* made while or after stop_all_streams runs.
C34_StoppedNeverResumes ==
    [][\A w \in stopSeen :
          wk[w].pc = "w_loop" => wk'[w].frame = wk[w].frame]_vars

\* C35: a get_current_frame call on a registered stream that begins after a
\* frame has been put into the stream's queue returns a frame, never the
\* placeholder, however the call interleaves with the worker's drain and
\* put and with other readers.
C35_NoPlaceholderAfterWrite ==
    [][\A c \in Callers :
          (/\ Ends(c, "get_current_frame")
           /\ call'[c].name \in DOMAIN active_streams
           /\ call[c].floor # NoFrame)
          => call'[c].ret = "frame"]_vars

\* C36: when load_streams_from_db has completed, the stream file still
\* holds every record the load read from it, also when the probe of one of
\* the streams failed during the load.
C36_RestoreKeepsStore ==
    Constructed
    => \A k \in DOMAIN streams_data :
          /\ k \in DOMAIN db
          /\ db[k] = streams_data[k]

====
